---- MODULE Spec2Model ----
(***************************************************************************)
(* Model of wavefmt.c: the RIFF/WAVE header reader (wavefmt_read_header,   *)
(* read_fmt, read_data), wavefmt_dump, and the wavefmt_filter pipeline     *)
(* with its four conversion loops.  The input file is a sequence of bytes, *)
(* the input stream is (pos, eof) with the C stdio semantics of fread and  *)
(* fseek, automatic variables start with whatever the stack holds.         *)
(***************************************************************************)
EXTENDS Integers, Sequences, FiniteSets, TLC

(* ---------------------------------------------------------------- bounds *)
MaxSamples == 2      \* samples actually present in an input payload
MaxTNum    == 3      \* t ranges over 0/4 .. MaxTNum/4 seconds
YMax       == 3      \* the callback returns k/2 for k in -YMax..YMax
MaxIters   == 6      \* cap on iterations of one conversion loop
MaxCount   == 100    \* cap on bytecount in the chunk loop

(* ------------------------------------------------------ program constants *)
WAVEFMT_PCM   == 1
WAVEFMT_FLOAT == 3
WAVEFMT_ALAW  == 6
HeaderSize    == 44          \* sizeof(struct wavefmt)

Min(a, b) == IF a < b THEN a ELSE b
Max(a, b) == IF a > b THEN a ELSE b

(* --------------------------------------------------------- bytes on disk *)
TagRIFF == <<82, 73, 70, 70>>
TagRIFX == <<82, 73, 70, 88>>
TagWAVE == <<87, 65, 86, 69>>
TagFmt  == <<102, 109, 116, 32>>
TagData == <<100, 97, 116, 97>>
TagLIST == <<76, 73, 83, 84>>
TagNone == <<0, 0, 0, 0>>

RECURSIVE Pow256(_)
Pow256(i) == IF i = 0 THEN 1 ELSE 256 * Pow256(i - 1)

\* little-endian bytes of an unsigned integer of w bytes
ULE(v, w) == [i \in 1..w |-> (v \div Pow256(i - 1)) % 256]

RECURSIVE LE(_)
\* the value of a little-endian byte sequence
LE(bs) == IF bs = <<>> THEN 0 ELSE bs[1] + 256 * LE(Tail(bs))

\* two's complement reading of a 16-bit pattern (int16_t)
Int16(u) == IF u >= 32768 THEN u - 65536 ELSE u

Fill(n, b) == [i \in 1..n |-> b]

FmtBody(fm, ch, sr, br, ba, bits) ==
  ULE(fm, 2) \o ULE(ch, 2) \o ULE(sr, 4) \o ULE(br, 4) \o ULE(ba, 2) \o ULE(bits, 2)

ChunkFmt(body, extra) == TagFmt \o ULE(16 + extra, 4) \o body \o Fill(extra, 0)
ChunkFmtShort(sz)     == TagFmt \o ULE(sz, 4) \o Fill(sz, 0)
ChunkList(k)          == TagLIST \o ULE(k, 4) \o Fill(k, 7)
ChunkData(declared, payload) == TagData \o ULE(declared, 4) \o payload
RiffWave(chunks)      == TagRIFF \o ULE(4 + Len(chunks), 4) \o TagWAVE \o chunks

(* ------------------------------------------------------------ input files *)
SampleRate == 3

\* the fmt bodies of the input files: format, channels, samplerate,
\* byterate, blockalign, bitspersample
BodyPcm16   == FmtBody(WAVEFMT_PCM,   1, SampleRate, 2 * SampleRate, 2, 16)
BodyFloat32 == FmtBody(WAVEFMT_FLOAT, 1, SampleRate, 4 * SampleRate, 4, 32)
BodyStereo  == FmtBody(WAVEFMT_PCM,   2, SampleRate, 4 * SampleRate, 4, 16)
BodyAlaw    == FmtBody(WAVEFMT_ALAW,  1, SampleRate, SampleRate, 1, 8)
BodyBadRate == FmtBody(WAVEFMT_PCM,   1, SampleRate, 2 * SampleRate + 1, 2, 16)
BodyAlign0  == FmtBody(WAVEFMT_PCM,   1, SampleRate, 0, 0, 16)
Bodies      == {BodyPcm16, BodyFloat32, BodyStereo, BodyAlaw, BodyBadRate, BodyAlign0}

\* the chunks before "data": any mix of unknown chunks and fmt chunks
LayoutsWithFmt(b) ==
  { ChunkFmt(b, 0), ChunkFmt(b, 2),
    ChunkList(42) \o ChunkFmt(b, 0),
    ChunkFmt(b, 0) \o ChunkList(0),
    ChunkList(3) \o ChunkFmt(b, 2) \o ChunkList(0) }
LayoutsNoFmt   == { <<>>, ChunkList(42) }
LayoutsShortFmt == { ChunkFmtShort(4), ChunkFmtShort(4) \o ChunkFmt(BodyPcm16, 0) }

\* sample i of a PCM16 payload and of a float payload (raw bytes)
PcmSample(i) == ULE(CASE i % 3 = 1 -> 32767 [] i % 3 = 2 -> 32768 [] OTHER -> 16384, 2)
F32Sample(i) == CASE i % 3 = 1 -> <<0, 0, 128, 63>> [] i % 3 = 2 -> <<0, 0, 128, 191>> [] OTHER -> <<0, 0, 0, 63>>

RECURSIVE Payload(_, _)
Payload(w, k) == IF k = 0 THEN <<>>
                 ELSE Payload(w, k - 1) \o (IF w = 2 THEN PcmSample(k) ELSE F32Sample(k))

(* ------------------------------------------------------------------ state *)
VARIABLES
  op,           \* "dump" or "filter": the operation under way
  format,       \* wavefmt_filter's format argument
  tq,           \* wavefmt_filter's t argument, in quarter seconds
  fy,           \* the callback: f returns fy[(number of earlier calls) % Len(fy) + 1] / 2
  file,         \* the bytes of the input file
  pc,           \* position in the program
  opened,       \* the FILE handles that are open
  pos, eof,     \* input stream: file position and end-of-file indicator
  fmti,         \* struct wavefmt filled by wavefmt_read_header
  chunktag, chunksize,   \* locals of the chunk loop
  bytecount,    \* wavefmt_read_header's bytecount
  tagsRead,     \* the chunk tags read in full from the file, in order
  data_offset,  \* wavefmt_read_header's return value
  rh,           \* wavefmt_read_header: "idle", "running" or "returned"
  fmto, hdrOut, \* output header, and the headers written to the output file
  Nin, Nout, n, \* sample counts and the loop counter
  samp, x,      \* the locals samp16 and x of the conversion loops
  conv,         \* the conversion loop selected by the dispatch
  iters,        \* iterations of the conversion loops so far
  nread,        \* samples obtained from the input file so far
  fargs,        \* the arguments f was called with, in order
  out,          \* the samples written to the output file, in order
  ret           \* <<>> while running, <<code>> once the operation has returned

vars == <<op, format, tq, fy, file, pc, opened, pos, eof, fmti, chunktag, chunksize,
          bytecount, tagsRead, data_offset, rh, fmto, hdrOut, Nin, Nout, n, samp, x,
          conv, iters, nread, fargs, out, ret>>

inputVars  == <<op, format, tq, fy, file>>
streamVars == <<pos, eof>>
headerVars == <<fmti, chunktag, chunksize, bytecount, tagsRead, data_offset, rh>>
loopVars   == <<fmto, hdrOut, Nin, Nout, n, samp, x, conv, iters, nread, fargs, out>>

(* ------------------------------------------------------------- C stdio *)
\* the bytes fread obtains when asked for len bytes at position p
Got(p, len) == IF p >= Len(file) THEN <<>> ELSE SubSeq(file, p + 1, Min(p + len, Len(file)))

\* fread(buf, 1, 4, fp) into a 4-byte tag: the bytes obtained overwrite the
\* front of the buffer, the rest of the buffer keeps what it held
MergeTag(old, got) == got \o SubSeq(old, Len(got) + 1, 4)

\* fread(&v, w, 1, fp) into an integer of w bytes
MergeInt(old, got, w) == LE(got \o SubSeq(ULE(old, w), Len(got) + 1, w))

\* one fread(&h->name, w, 1, fp) of the running state st = [h, pos, eof, count]
fread_int(st, name, w) ==
  LET got == Got(st.pos, w) IN
  [ h     |-> [st.h EXCEPT ![name] = MergeInt(@, got, w)],
    pos   |-> st.pos + Len(got),
    eof   |-> st.eof \/ Len(got) < w,
    count |-> st.count + (IF Len(got) = w THEN w ELSE 0) ]

\* the reads of read_fmt in order; each read starts from the stream the
\* one before it left (the singleton set binds that stream once)
RECURSIVE fread_fields(_, _)
fread_fields(st, fields) ==
  IF fields = <<>> THEN st
  ELSE CHOOSE r \in { fread_fields(s, Tail(fields)) :
                        s \in {fread_int(st, Head(fields)[1], Head(fields)[2])} } : TRUE

\* fseek(fp, off, SEEK_CUR): moves the position and clears the indicator
fseek_cur(st, off) == [st EXCEPT !.pos = @ + off, !.eof = FALSE]

FmtFields == << <<"format", 2>>, <<"channels", 2>>, <<"samplerate", 4>>,
                <<"byterate", 4>>, <<"blockalign", 2>>, <<"bitspersample", 2>> >>

\* faulty variant of skip_rest: the skipped bytes are not added to bytecount
skip_rest_uncounted(s2) ==
  LET skip == s2.h.fmt_size + 4 - s2.count
  IN  IF s2.count < s2.h.fmt_size + 4 THEN fseek_cur(s2, skip) ELSE s2

\* lines 24-31: the rest of a fmt chunk is skipped and counted
skip_rest(s2) ==
  LET skip == s2.h.fmt_size + 4 - s2.count
  IN  IF s2.count < s2.h.fmt_size + 4
      THEN [fseek_cur(s2, skip) EXCEPT !.count = @ + skip]
      ELSE s2

\* read_fmt: st.count is the function's own bytecount, started at 0
\* (fmt_size + 4 is computed in uint32_t; the sizes here stay far below 2^32)
read_fmt(st0) ==
  CHOOSE r \in
    { skip_rest(s2) :
        s2 \in { IF s1.h.fmt_size >= 16 THEN fread_fields(s1, FmtFields) ELSE s1 :
                   s1 \in {fread_int([st0 EXCEPT !.count = 0], "fmt_size", 4)} } } : TRUE

\* read_data: reads data_size and leaves the position at the payload
read_data(st0) == fread_int([st0 EXCEPT !.count = 0], "data_size", 4)

(* ------------------------------------------------------------------ Init *)
ZeroHeader ==
  [ riff_tag |-> TagNone, riff_size |-> 0, wave_tag |-> TagNone, fmt_tag |-> TagNone,
    fmt_size |-> 0, format |-> 0, channels |-> 0, samplerate |-> 0, byterate |-> 0,
    blockalign |-> 0, bitspersample |-> 0, data_tag |-> TagNone, data_size |-> 0 ]

\* what an earlier successful call on a PCM16 mono file leaves in the same slots
LeftoverHeader ==
  [ riff_tag |-> TagRIFF, riff_size |-> 38, wave_tag |-> TagWAVE, fmt_tag |-> TagFmt,
    fmt_size |-> 16, format |-> WAVEFMT_PCM, channels |-> 1, samplerate |-> SampleRate,
    byterate |-> 2 * SampleRate, blockalign |-> 2, bitspersample |-> 16,
    data_tag |-> TagData, data_size |-> 2 ]

\* The automatic variables fmt, chunktag, chunksize, samp16 and x are not
\* initialised by the code: they start with what the stack holds, zeroes or
\* the leftovers of an earlier call.
Stacks ==
  { [fmti |-> ZeroHeader, chunktag |-> TagNone, chunksize |-> 0, samp |-> 0,
      xraw |-> <<0, 0, 0, 0>>],
    [fmti |-> LeftoverHeader, chunktag |-> TagData, chunksize |-> 42,
      samp |-> 16384, xraw |-> <<0, 0, 0, 63>>] }

Prefixes(f) == { SubSeq(f, 1, k) : k \in 0..(Len(f) - 1) }

OnePcm == ChunkData(2, Payload(2, 1))

\* RIFF/WAVE, unknown chunks and fmt chunks of size >= 16, then a data chunk
WellFormedFiles ==
  UNION { { RiffWave(l \o OnePcm) : l \in LayoutsWithFmt(b) } : b \in Bodies }
  \cup { RiffWave(l \o OnePcm) : l \in LayoutsNoFmt }

\* section 8, scenario 1: RIFF / WAVE / LIST(42) / fmt(16) / data
ScenarioFile == RiffWave(ChunkList(42) \o ChunkFmt(BodyPcm16, 0) \o OnePcm)

HeaderFiles ==
  WellFormedFiles
  \cup { RiffWave(l \o OnePcm) : l \in LayoutsShortFmt }
  \cup Prefixes(RiffWave(ChunkList(3) \o ChunkFmt(BodyPcm16, 2) \o OnePcm))
  \cup { RiffWave(ChunkFmt(BodyPcm16, 0) \o ChunkList(3)),
         RiffWave(ChunkFmt(BodyPcm16, 0) \o ChunkList(0)),
         TagRIFX \o ULE(4, 4) \o TagWAVE \o ChunkFmt(BodyPcm16, 0) \o OnePcm }

\* payloads holding a samples while the data chunk declares d samples
FilterFiles ==
  { RiffWave(ChunkFmt(BodyPcm16, 0) \o ChunkData(2 * d, Payload(2, a))) :
      a \in 0..MaxSamples, d \in 0..(MaxSamples + 1) }
  \cup
  { RiffWave(ChunkFmt(BodyFloat32, 0) \o ChunkData(4 * d, Payload(4, a))) :
      a \in 0..MaxSamples, d \in 0..(MaxSamples + 1) }

FOut == (0 - YMax)..YMax

XZero == [num |-> 0, raw |-> <<0, 0, 0, 0>>]

InitRest(stk) ==
  /\ opened = {} /\ pos = 0 /\ eof = FALSE
  /\ fmti = stk.fmti /\ chunktag = stk.chunktag /\ chunksize = stk.chunksize
  /\ bytecount = 0 /\ tagsRead = <<>> /\ data_offset = 0 /\ rh = "idle"
  /\ fmto = ZeroHeader /\ hdrOut = <<>>
  /\ Nin = 0 /\ Nout = 0 /\ n = 0
  /\ samp = stk.samp /\ x = [num |-> 0, raw |-> stk.xraw]
  /\ conv = "none" /\ iters = 0 /\ nread = 0 /\ fargs = <<>> /\ out = <<>>
  /\ ret = <<>>

\* wavefmt_dump on any of the header files
InitDump ==
  \E stk \in Stacks :
    /\ InitRest(stk)
    /\ file \in HeaderFiles
    /\ op = "dump" /\ pc = "d_open"
    /\ format = WAVEFMT_PCM /\ tq = 0 /\ fy = <<0>>

Init ==
  \E stk \in Stacks :
    /\ InitRest(stk)
    /\ \/ /\ file \in HeaderFiles
          /\ op \in {"dump", "filter"}
          /\ pc = (IF op = "dump" THEN "d_open" ELSE "f_open_in")
          /\ format = WAVEFMT_PCM /\ tq = 0 /\ fy = <<0>>
       \/ /\ file \in FilterFiles
          /\ op = "filter" /\ pc = "f_open_in"
          /\ format \in {WAVEFMT_PCM, WAVEFMT_FLOAT, WAVEFMT_ALAW}
          /\ tq \in 0..MaxTNum
          /\ fy \in { <<a, b>> : a \in FOut, b \in {0, YMax} }

(* -------------------------------------------------- wavefmt_read_header *)
Stream == [h |-> fmti, pos |-> pos, eof |-> eof, count |-> 0]

\* return v to the caller of wavefmt_read_header
rh_return(v) ==
  /\ data_offset' = v
  /\ rh' = "returned"
  /\ pc' = (IF op = "dump" THEN "d_check" ELSE "f_check")

\* lines 63-69: the RIFF tag
rh_riff ==
  /\ pc = "rh_riff"
  /\ LET got == Got(pos, 4)
         tag == MergeTag(fmti.riff_tag, got)
     IN  /\ fmti' = [fmti EXCEPT !.riff_tag = tag]
         /\ pos' = pos + Len(got)
         /\ eof' = (eof \/ Len(got) < 4)
         /\ bytecount' = Len(got)
         /\ IF tag # TagRIFF THEN rh_return(0)
            ELSE pc' = "rh_wave" /\ UNCHANGED <<data_offset, rh>>
  /\ UNCHANGED <<inputVars, opened, chunktag, chunksize, tagsRead, loopVars, ret>>

\* lines 70-77: riff_size and the WAVE tag
rh_wave ==
  /\ pc = "rh_wave"
  /\ LET s1  == fread_int(Stream, "riff_size", 4)
         got == Got(s1.pos, 4)
         tag == MergeTag(fmti.wave_tag, got)
     IN  /\ fmti' = [s1.h EXCEPT !.wave_tag = tag]
         /\ pos' = s1.pos + Len(got)
         /\ eof' = (s1.eof \/ Len(got) < 4)
         /\ bytecount' = bytecount + s1.count + Len(got)
         /\ IF tag # TagWAVE THEN rh_return(0)
            ELSE pc' = "rh_loop" /\ UNCHANGED <<data_offset, rh>>
  /\ UNCHANGED <<inputVars, opened, chunktag, chunksize, tagsRead, loopVars, ret>>

\* lines 79-82: the loop test passes and the iteration reads the chunk tag
rh_chunk_tag ==
  /\ pc = "rh_loop" /\ ~eof /\ bytecount <= MaxCount
  /\ LET got == Got(pos, 4)
     IN  /\ chunktag' = MergeTag(chunktag, got)
         /\ tagsRead' = (IF Len(got) = 4 THEN Append(tagsRead, got) ELSE tagsRead)
         /\ pos' = pos + Len(got)
         /\ eof' = (eof \/ Len(got) < 4)
         /\ bytecount' = bytecount + Len(got)
  /\ pc' = "rh_chunk"
  /\ UNCHANGED <<inputVars, opened, fmti, chunksize, data_offset, rh, loopVars, ret>>

\* lines 83-85: a fmt chunk
rh_chunk_fmt ==
  /\ pc = "rh_chunk"
  /\ chunktag = TagFmt
  /\ LET s == read_fmt([Stream EXCEPT !.h.fmt_tag = chunktag])
     IN  /\ fmti' = s.h /\ pos' = s.pos /\ eof' = s.eof
         /\ bytecount' = bytecount + s.count
  /\ pc' = "rh_loop"
  /\ UNCHANGED <<inputVars, opened, chunktag, chunksize, tagsRead, data_offset, rh,
                 loopVars, ret>>

\* lines 86-89, 100-101: the data chunk ends the loop with success
rh_chunk_data ==
  /\ pc = "rh_chunk"
  /\ chunktag # TagFmt /\ chunktag = TagData
  /\ LET s == read_data([Stream EXCEPT !.h.data_tag = chunktag])
     IN  /\ fmti' = s.h /\ pos' = s.pos /\ eof' = s.eof
         /\ bytecount' = bytecount + s.count
         /\ rh_return(bytecount + s.count)
  /\ UNCHANGED <<inputVars, opened, chunktag, chunksize, tagsRead, loopVars, ret>>

\* lines 91-96: the skip of any other chunk, applied to the stream
ignore_chunk(st0, oldsize) ==
  LET got  == Got(st0.pos, 4)
      size == MergeInt(oldsize, got, 4)
  IN  [ size  |-> size,
        pos   |-> st0.pos + Len(got) + size,
        eof   |-> FALSE,
        count |-> (IF Len(got) = 4 THEN 4 ELSE 0) + size ]

\* lines 90-97: any other chunk is skipped
rh_chunk_ignore ==
  /\ pc = "rh_chunk"
  /\ chunktag # TagFmt /\ chunktag # TagData
  /\ LET s == ignore_chunk(Stream, chunksize)
     IN  /\ chunksize' = s.size /\ pos' = s.pos /\ eof' = s.eof
         /\ bytecount' = bytecount + s.count
  /\ pc' = "rh_loop"
  /\ UNCHANGED <<inputVars, opened, fmti, chunktag, tagsRead, data_offset, rh,
                 loopVars, ret>>

\* lines 79, 100-101: the loop ends on feof and falls into the success exit
rh_loop_exit ==
  /\ pc = "rh_loop" /\ eof
  /\ rh_return(bytecount)
  /\ UNCHANGED <<inputVars, opened, streamVars, fmti, chunktag, chunksize, bytecount,
                 tagsRead, loopVars, ret>>

(* --------------------------------------------------------- wavefmt_dump *)
\* lines 174-178
d_open ==
  /\ pc = "d_open"
  /\ \E ok \in BOOLEAN :
       IF ok THEN opened' = {"fp"} /\ pc' = "rh_riff" /\ rh' = "running" /\ UNCHANGED ret
       ELSE ret' = <<0 - 2>> /\ pc' = "done" /\ UNCHANGED <<opened, rh>>
  /\ UNCHANGED <<inputVars, streamVars, fmti, chunktag, chunksize, bytecount, tagsRead,
                 data_offset, loopVars>>

\* lines 179-189
d_check ==
  /\ pc = "d_check"
  /\ IF data_offset = 0
     THEN ret' = <<0 - 3>> /\ UNCHANGED opened
     ELSE opened' = opened \ {"fp"} /\ ret' = <<0>>
  /\ pc' = "done"
  /\ UNCHANGED <<inputVars, streamVars, headerVars, loopVars>>

(* ------------------------------------------------------- wavefmt_filter *)
\* lines 312-316
f_open_in ==
  /\ pc = "f_open_in"
  /\ \E ok \in BOOLEAN :
       IF ok THEN opened' = {"fpi"} /\ pc' = "f_open_out" /\ UNCHANGED ret
       ELSE ret' = <<0 - 2>> /\ pc' = "done" /\ UNCHANGED opened
  /\ UNCHANGED <<inputVars, streamVars, headerVars, loopVars>>

\* lines 317-322
f_open_out ==
  /\ pc = "f_open_out"
  /\ \E ok \in BOOLEAN :
       IF ok THEN opened' = opened \cup {"fpo"} /\ pc' = "rh_riff" /\ rh' = "running"
                  /\ UNCHANGED ret
       ELSE ret' = <<0 - 2>> /\ pc' = "done" /\ UNCHANGED <<opened, rh>>
  /\ UNCHANGED <<inputVars, streamVars, fmti, chunktag, chunksize, bytecount, tagsRead,
                 data_offset, loopVars>>

\* faulty variant of ChannelsOk: any channel count of at least one passes
ChannelsOk_lax(h) == h.channels >= 1

\* line 326
ChannelsOk(h) == h.channels = 1

\* line 330
FormatOk(fm) == fm = WAVEFMT_PCM \/ fm = WAVEFMT_FLOAT

\* lines 323-333
f_check ==
  /\ pc = "f_check"
  /\ IF data_offset = 0 THEN ret' = <<0 - 3>> /\ pc' = "done"
     ELSE IF ~ChannelsOk(fmti) THEN ret' = <<0 - 4>> /\ pc' = "done"
     ELSE IF ~FormatOk(format) THEN ret' = <<0 - 4>> /\ pc' = "done"
     ELSE pc' = "f_setup" /\ UNCHANGED ret
  /\ UNCHANGED <<inputVars, opened, streamVars, headerVars, loopVars>>

\* line 336 (blockalign # 0)
SamplesIn(h) == h.data_size \div h.blockalign

\* faulty variant of SamplesOut: the product is rounded to the nearest integer
SamplesOut_round(h, nin, t) == IF t = 0 THEN nin ELSE (2 * h.samplerate * t + 4) \div 8

\* line 337: t is tq/4; the conversion of the double product to unsigned int
\* drops the fraction
SamplesOut(h, nin, t) == IF t = 0 THEN nin ELSE (h.samplerate * t) \div 4

\* lines 335, 338-344
OutHeader(h, fm, nout) ==
  LET ba == IF fm = WAVEFMT_FLOAT THEN 4 ELSE 2 IN
  [h EXCEPT !.format = fm, !.fmt_size = 16,
            !.bitspersample = IF fm = WAVEFMT_FLOAT THEN 32 ELSE 16,
            !.blockalign = ba,
            !.byterate = ba * h.samplerate,
            !.data_size = nout * ba,
            !.riff_size = nout * ba + 16 + 8 + 8 + 4]

\* lines 335-345; a zero blockalign makes line 336 divide by zero, which
\* traps or yields 0 depending on the machine
f_setup ==
  /\ pc = "f_setup"
  /\ \/ /\ fmti.blockalign = 0
        /\ pc' = "trap"
        /\ UNCHANGED <<Nin, Nout, fmto, hdrOut>>
     \/ \E nin \in (IF fmti.blockalign = 0 THEN {0} ELSE {SamplesIn(fmti)}) :
          LET nout == SamplesOut(fmti, nin, tq)
              h    == OutHeader(fmti, format, nout)
          IN  /\ Nin' = nin /\ Nout' = nout /\ fmto' = h
              /\ hdrOut' = Append(hdrOut, h)
              /\ pc' = "f_dispatch"
  /\ UNCHANGED <<inputVars, opened, streamVars, headerVars, n, samp, x, conv, iters,
                 nread, fargs, out, ret>>

\* lines 347-357: the conversion the dispatch selects
Conversion(h, fm) ==
  IF h.format = WAVEFMT_PCM /\ h.bitspersample = 16
  THEN IF fm = WAVEFMT_FLOAT THEN "pcm2float"
       ELSE IF fm = WAVEFMT_PCM THEN "pcm2pcm" ELSE "skip"
  ELSE IF h.format = WAVEFMT_FLOAT /\ h.bitspersample = 32
  THEN IF fm = WAVEFMT_FLOAT THEN "float2float"
       ELSE IF fm = WAVEFMT_PCM THEN "float2pcm" ELSE "skip"
  ELSE "unsupported"

\* lines 347-360
f_dispatch ==
  /\ pc = "f_dispatch"
  /\ LET c == Conversion(fmti, format)
     IN  /\ conv' = c
         /\ IF c = "unsupported" THEN ret' = <<0 - 4>> /\ pc' = "done"
            ELSE IF c = "skip" THEN pc' = "f_close" /\ UNCHANGED ret
            ELSE pc' = "conv" /\ UNCHANGED ret
  /\ n' = 0
  /\ UNCHANGED <<inputVars, opened, streamVars, headerVars, fmto, hdrOut, Nin, Nout,
                 samp, x, iters, nread, fargs, out>>

\* lines 362-365
f_close ==
  /\ pc = "f_close"
  /\ opened' = opened \ {"fpi", "fpo"}
  /\ ret' = <<0>>
  /\ pc' = "done"
  /\ UNCHANGED <<inputVars, streamVars, headerVars, loopVars>>

(* ----------------------------------------------------- conversion loops *)
\* lines 192-195, on values in half units
clamp(d, lo, hi) == LET t == IF d < lo THEN lo ELSE d IN IF t > hi THEN hi ELSE t

\* C conversion of a quotient to int: the fraction is dropped
Trunc(a, b) == IF a >= 0 THEN a \div b ELSE 0 - ((0 - a) \div b)

\* faulty variant of PcmEncode: the rounding offset is 32767.5
PcmEncode_low(k) == Trunc(65535 + 32767 * k, 2) - 32768

\* lines 231, 238, 275, 282: (int)(32768.5 + 32767.0 * y) - 32768 for y = k/2
PcmEncode(k) == Trunc(65537 + 32767 * k, 2) - 32768

\* the assignment of the int to the int16_t samp16
ToInt16(i) == Int16(i % 65536)

\* the value f returns on this call
f_result == fy[(Len(fargs) % Len(fy)) + 1]

\* lines 208-209 / 230-232 / 253-254 / 274-276: clamp f's result and write it;
\* a PCM output also leaves the encoded sample in samp16
Emit(outK, xv, s) ==
  LET y == clamp(f_result, 0 - 2, 2) IN
  /\ fargs' = Append(fargs, xv)
  /\ IF outK = "pcm"
     THEN /\ out' = Append(out, [w |-> 2, y |-> y, i |-> PcmEncode(y),
                                  v |-> ToInt16(PcmEncode(y))])
          /\ samp' = ToInt16(PcmEncode(y))
     ELSE /\ out' = Append(out, [w |-> 4, y |-> y, i |-> 0, v |-> 0])
          /\ samp' = s

\* one iteration of the first loop: while (n < Nin)
ConvRead(inK, outK) ==
  /\ n < Nin /\ iters < MaxIters
  /\ LET w   == IF inK = "pcm" THEN 2 ELSE 4
         got == Got(pos, w)
         r   == IF Len(got) = w THEN 1 ELSE 0
         s   == IF inK = "pcm" THEN Int16(MergeInt(samp % 65536, got, 2)) ELSE samp
         xv  == IF inK = "pcm" THEN [num |-> s, raw |-> <<>>]
                ELSE [num |-> 0, raw |-> MergeTag(x.raw, got)]
     IN  /\ pos' = pos + Len(got)
         /\ eof' = (eof \/ Len(got) < w)
         /\ n' = n + r
         /\ nread' = nread + r
         /\ x' = xv
         /\ Emit(outK, xv, s)
  /\ iters' = iters + 1
  /\ UNCHANGED <<inputVars, opened, pc, headerVars, fmto, hdrOut, Nin, Nout, conv, ret>>

\* one iteration of the second loop: while (n < Nout)
ConvPad(inK, outK) ==
  /\ n >= Nin /\ n < Nout /\ iters < MaxIters
  /\ n' = n + 1
  /\ LET xv == IF inK = "pcm" THEN [num |-> 0, raw |-> <<>>] ELSE XZero
     IN  x' = xv /\ Emit(outK, xv, samp)
  /\ iters' = iters + 1
  /\ UNCHANGED <<inputVars, opened, pc, streamVars, headerVars, fmto, hdrOut, Nin, Nout,
                 conv, nread, ret>>

\* both loop tests fail and the function returns
ConvEnd ==
  /\ n >= Nin /\ n >= Nout
  /\ pc' = "f_close"
  /\ UNCHANGED <<inputVars, opened, streamVars, headerVars, loopVars, ret>>

ConvLoops(inK, outK) == ConvRead(inK, outK) \/ ConvPad(inK, outK) \/ ConvEnd

filter_pcm2float   == pc = "conv" /\ conv = "pcm2float"   /\ ConvLoops("pcm", "float")
filter_pcm2pcm     == pc = "conv" /\ conv = "pcm2pcm"     /\ ConvLoops("pcm", "pcm")
filter_float2float == pc = "conv" /\ conv = "float2float" /\ ConvLoops("float", "float")
filter_float2pcm   == pc = "conv" /\ conv = "float2pcm"   /\ ConvLoops("float", "pcm")

(* ------------------------------------------------------- specification *)
Next ==
  \/ d_open \/ d_check
  \/ rh_riff \/ rh_wave \/ rh_chunk_tag \/ rh_chunk_fmt \/ rh_chunk_data
  \/ rh_chunk_ignore \/ rh_loop_exit
  \/ f_open_in \/ f_open_out \/ f_check \/ f_setup \/ f_dispatch
  \/ filter_pcm2float \/ filter_pcm2pcm \/ filter_float2float \/ filter_float2pcm
  \/ f_close

Spec == Init /\ [][Next]_vars

\* wavefmt_dump alone: the header reader and its caller
NextDump ==
  \/ d_open \/ d_check
  \/ rh_riff \/ rh_wave \/ rh_chunk_tag \/ rh_chunk_fmt \/ rh_chunk_data
  \/ rh_chunk_ignore \/ rh_loop_exit

\* the program is a single thread that always takes its next step
FairDumpSpec == InitDump /\ [][NextDump]_vars /\ WF_vars(NextDump)

(* ================================================================ claims *)
Range(sq) == { sq[i] : i \in 1..Len(sq) }

\* wavefmt_read_header has just returned to its caller
AtReturn == pc \in {"d_check", "f_check"}

StartsRiffWave(f) ==
  Len(f) >= 12 /\ SubSeq(f, 1, 4) = TagRIFF /\ SubSeq(f, 9, 12) = TagWAVE


RECURSIVE SumW(_)
SumW(sq) == IF sq = <<>> THEN 0 ELSE Head(sq).w + SumW(Tail(sq))

\* the bytes written to the output file
OutFileBytes == HeaderSize * Len(hdrOut) + SumW(out)

\* C1: a successful wavefmt_filter writes exactly Nout samples after the
\* header, that is out.data_size bytes, also when Nin > Nout.
C1_OutputLength ==
  (op = "filter" /\ ret = <<0>>) => (Len(out) = Nout /\ SumW(out) = fmto.data_size)

\* C2: a file that starts with RIFF and WAVE and ends before any "data" tag
\* is read makes wavefmt_read_header return 0.
C2_TruncatedFails ==
  (rh = "returned" /\ StartsRiffWave(file) /\ TagData \notin Range(tagsRead))
    => data_offset = 0

\* C3: no file handle is open once wavefmt_filter or wavefmt_dump has returned.
C3_HandlesClosed == (pc = "done") => (opened = {})

\* C4: a non-zero return of wavefmt_filter means f was never called and the
\* output holds no samples, at most one header; a parsed header with two
\* channels gives -4.
C4_NoSamplesOnError ==
  /\ (op = "filter" /\ pc = "done" /\ ret # <<0>>)
       => (fargs = <<>> /\ out = <<>> /\ OutFileBytes <= HeaderSize)
  /\ (op = "filter" /\ pc = "done" /\ rh = "returned" /\ data_offset # 0
        /\ fmti.channels = 2)
       => (ret = <<0 - 4>> /\ out = <<>> /\ hdrOut = <<>>)

C4_Witness ==
  op = "filter" /\ pc = "done" /\ ret = <<0 - 4>> /\ OutFileBytes = HeaderSize

\* C5: on a well-formed file the value wavefmt_read_header returns is the
\* position of the first payload byte, and the stream is left there.
C5_OffsetIsPayloadStart ==
  /\ (AtReturn /\ file \in WellFormedFiles)
       => (data_offset = Len(file) - Len(Payload(2, 1)) /\ pos = data_offset)
  /\ (AtReturn /\ file \in FilterFiles)
       => (data_offset = 12 + 8 + 16 + 8 /\ pos = data_offset)
  /\ (AtReturn /\ file = ScenarioFile) => data_offset = 94

C5_Witness == AtReturn /\ file = ScenarioFile /\ data_offset = 94 /\ pos = 94

\* C6 as stated: for t > 0 the output has round(samplerate * t) samples.
C6_RoundedLength ==
  (hdrOut # <<>> /\ tq > 0) => Nout = (2 * fmti.samplerate * tq + 4) \div 8

\* C6 amended: for t > 0 the output has samplerate * t samples with the
\* fraction dropped, whatever Nin is; for t = 0 it has Nin samples; the
\* header's data_size is Nout * blockalign.
C6_TruncatedLength ==
  hdrOut # <<>> =>
    /\ tq > 0 => (4 * Nout <= fmti.samplerate * tq /\ fmti.samplerate * tq < 4 * (Nout + 1))
    /\ tq = 0 => Nout = Nin
    /\ hdrOut[1].data_size = Nout * hdrOut[1].blockalign
    /\ hdrOut[1].blockalign = (IF format = WAVEFMT_FLOAT THEN 4 ELSE 2)

C6_Witness == hdrOut # <<>> /\ tq = 1 /\ Nin = 2 /\ Nout = 0 /\ fmti.samplerate = 3

\* C7 as stated: the PCM16 encode step maps +1.0 to 32767, -1.0 to -32768
\* and 0.0 to 0, and stays in the int16 range.
C7_EncodeEndpoints ==
  \A k \in 1..Len(out) : out[k].w = 2 =>
    /\ out[k].y = 2 => out[k].i = 32767
    /\ out[k].y = 0 - 2 => out[k].i = 0 - 32768
    /\ out[k].y = 0 => out[k].i = 0
    /\ out[k].i >= 0 - 32768 /\ out[k].i <= 32767

\* C7 amended: the PCM16 encode step maps +1.0 to 32767, -1.0 to -32767 and
\* 0.0 to 0, and stays in the int16 range.
C7_EncodeAmended ==
  \A k \in 1..Len(out) : out[k].w = 2 =>
    /\ out[k].y = 2 => out[k].i = 32767
    /\ out[k].y = 0 - 2 => out[k].i = 0 - 32767
    /\ out[k].y = 0 => out[k].i = 0
    /\ out[k].i >= 0 - 32768 /\ out[k].i <= 32767
    /\ out[k].v = out[k].i

C7_Witness ==
  \E k \in 1..Len(out) : out[k].w = 2 /\ out[k].y = 0 - 2 /\ out[k].i = 0 - 32767

\* C8: every header wavefmt_read_header reports as parsed has consistent
\* byterate and blockalign and the four literal tags.
C8_HeaderInvariants ==
  (rh = "returned" /\ data_offset # 0) =>
    /\ fmti.byterate = fmti.blockalign * fmti.samplerate
    /\ 8 * fmti.blockalign = fmti.channels * fmti.bitspersample
    /\ fmti.riff_tag = TagRIFF /\ fmti.wave_tag = TagWAVE
    /\ fmti.fmt_tag = TagFmt /\ fmti.data_tag = TagData

\* C9: a conversion loop runs at most Nin + max(0, Nout - Nin) iterations
\* and calls f once per iteration, once per sample read.
C9_IterationBound ==
  /\ iters <= Nin + Max(0, Nout - Nin)
  /\ Len(fargs) = iters
  /\ iters = nread + Max(0, n - nread)

\* the chunk loop was stopped by the model's cap on bytecount
CapReached == pc = "rh_loop" /\ ~eof /\ bytecount > MaxCount

\* files that end after an unrecognised chunk and hold no data chunk
EndAfterUnknown ==
  { RiffWave(ChunkFmt(BodyPcm16, 0) \o ChunkList(3)),
    RiffWave(ChunkFmt(BodyPcm16, 0) \o ChunkList(0)) }

\* C10: wavefmt_read_header terminates on every finite input file, also on
\* one that ends after an unrecognised chunk and holds no data chunk.
C10_Terminates ==
  (file \in EndAfterUnknown) => <>(rh = "returned" \/ pc = "done" \/ CapReached)
====
